---- MODULE Spec2Model ----
(***************************************************************************)
(* Model of run_infer.py, the command-line driver of Depth Any Video.      *)
(*                                                                         *)
(* Spec      : one run of the driver (classification of the input path,   *)
(*             configuration assertions, reading, preprocessing, pipeline  *)
(*             invocation, writing; the per-image loop of directory mode   *)
(*             with its hook registration).                                *)
(* PlanSpec  : the Window Planner and Blender/Stitcher of spec.md 4.3/4.4, *)
(*             which live inside the external pipeline and are modelled    *)
(*             from their description, fed by the arithmetic of the driver.*)
(*                                                                         *)
(* A path is the sequence of the dot-separated components of its last      *)
(* path element: "clip.mp4" is <<"clip", "mp4">>.  A frame is the index it *)
(* has in the source medium, so that dropped or repeated frames show.      *)
(***************************************************************************)
EXTENDS Integers, Sequences, FiniteSets, TLC

\* ---------------------------------------------------------------- bounds
MaxNumFrames == 4
NegNumFrames == 2
MaxInterp == 3
MaxOverlap == 3
MaxVideoLen == 4
MaxPlanFrames == 6
MaxPlanLen == 9

\* ---------------------------------------------------------------- inputs
NumFramesVals == (0 - NegNumFrames) .. MaxNumFrames
InterpVals == 0 .. MaxInterp
OverlapVals == 1 .. MaxOverlap

Configs == [num_frames : NumFramesVals,
            num_interp_frames : InterpVals,
            num_overlap_frames : OverlapVals]

Paths == { <<"clip", "mp4">>, <<"pic", "png">>, <<"shot", "v2", "png">>,
           <<"scan", "bmp">>, <<"imgs">> }

DirFiles == { <<"a", "png">>, <<"a", "jpg">>, <<"b", "JPEG">>, <<"notes", "txt">> }

FpsVals == { 24, 30 }

\* -------------------------------------------------------- pure functions
Min(a, b) == IF a <= b THEN a ELSE b

Max(a, b) == IF a >= b THEN a ELSE b

Last(s) == s[Len(s)]

Range(s) == { s[i] : i \in DOMAIN s }

\* str.lower() on the extensions that occur
Lower(s) ==
  CASE s = "PNG" -> "png"
    [] s = "JPG" -> "jpg"
    [] s = "JPEG" -> "jpeg"
    [] s = "MP4" -> "mp4"
    [] s = "BMP" -> "bmp"
    [] s = "TXT" -> "txt"
    [] OTHER -> s

\* cfg.data_dir.endswith(".mp4"): case-sensitive, needs a dot before mp4
is_video(p) == Len(p) >= 2 /\ Last(p) = "mp4"

\* f.lower().endswith((".png", ".jpg", ".jpeg"))
is_image_name(f) == Len(f) >= 2 /\ Lower(Last(f)) \in {"png", "jpg", "jpeg"}

\* cfg.data_dir.split("/")[-1].split(".")[0]
file_name(p) == p[1]

\* os.path.splitext(os.path.basename(img_path))[0]: drops the text after the
\* last dot, unless only dots precede that dot
splitext_root(f) ==
  IF Len(f) >= 2 /\ (\E i \in 1 .. (Len(f) - 1) : f[i] # "")
    THEN SubSeq(f, 1, Len(f) - 1)
    ELSE f

\* the two assertions of the video branch
assert_even(c) == c.num_frames % 2 = 0

assert_overlap(c) ==
  /\ 2 <= c.num_overlap_frames
  /\ c.num_overlap_frames <= (c.num_interp_frames + 2 + 1) \div 2

\* the cap without the halving of num_frames
max_frames_nohalf(c) ==
  (c.num_interp_frames + 2 - c.num_overlap_frames) * c.num_frames

\* the cap with the overlap added instead of subtracted
max_frames_plus(c) ==
  (c.num_interp_frames + 2 + c.num_overlap_frames) * (c.num_frames \div 2)

\* line 291

max_frames(c) ==
  (c.num_interp_frames + 2 - c.num_overlap_frames) * (c.num_frames \div 2)

\* img_utils.read_video(path, max_frames): the number of frames decoded from
\* a medium of n frames; spec.md 4.1 fixes it for a positive cap only
read_video_counts(n, cap) == IF cap >= 1 THEN { Min(n, cap) } ELSE 0 .. n

\* frames 0 .. k-1 of the medium
FirstFrames(k) == [i \in 1 .. k |-> i - 1]

\* img_utils.read_image: a still image is a sequence of one frame
read_image_frames == << 0 >>

\* --------------------------------------------------------------- state
VARIABLES
  data_dir,      \* cfg.data_dir
  isdir,         \* os.path.isdir(cfg.data_dir)
  cfg,           \* num_frames, num_interp_frames, num_overlap_frames
  listing,       \* os.listdir(cfg.data_dir)
  video_len,     \* number of frames of the video file
  src_fps,       \* frame rate of the video file
  pc,            \* position of the driver
  kind,          \* how the driver classified the input
  cap,           \* max_frames handed to read_video
  image_files,   \* images of the directory not yet processed
  img_path,      \* image being processed in directory mode
  processed,     \* images the loop has taken, in order
  image,         \* frames read
  fps,           \* frame rate returned by read_video
  merged,        \* frames handed to the writer
  outputs,       \* files this run wrote, path |-> content
  fwd_hooks,     \* forward hooks on time_embedding of unet, unet_interp
  pre_hooks,     \* forward pre-hooks on time_embedding of unet, unet_interp
  hooks_at_call, \* hooks registered at each pipeline invocation
  frames_read,   \* frames decoded so far
  error,         \* exception that ended the run
  plan           \* state of the Window Planner and Blender (PlanSpec)

vars == << data_dir, isdir, cfg, listing, video_len, src_fps, pc, kind, cap,
           image_files, img_path, processed, image, fps, merged, outputs,
           fwd_hooks, pre_hooks, hooks_at_call, frames_read, error, plan >>

inputs == << data_dir, isdir, cfg, listing, video_len, src_fps >>

hooks == << fwd_hooks, pre_hooks >>

Models == { "unet", "unet_interp" }

NoFile == << >>

NoPlan == [ppc |-> "off"]

\* written files: a set of records with pairwise distinct paths
WriteFile(fs, path, content) ==
  { o \in fs : o.path # path } \cup { [path |-> path] @@ content }

pipe_calls == Len(hooks_at_call)

\* ----------------------------------------------------------------- Init
\* The state after the models are loaded, the hooks of lines 135-154 are
\* registered and the pipeline object is built.
Init ==
  /\ data_dir \in Paths
  /\ isdir \in BOOLEAN
  /\ cfg \in Configs
  /\ listing \in IF isdir THEN SUBSET DirFiles ELSE { {} }
  /\ video_len \in IF ~isdir /\ is_video(data_dir) THEN 0 .. MaxVideoLen ELSE { 0 }
  /\ src_fps \in IF ~isdir /\ is_video(data_dir) THEN FpsVals ELSE { 0 }
  /\ pc = "start"
  /\ kind = "none"
  /\ cap = 0
  /\ image_files = {}
  /\ img_path = NoFile
  /\ processed = << >>
  /\ image = << >>
  /\ fps = 0
  /\ merged = << >>
  /\ outputs = {}
  /\ fwd_hooks = [m \in Models |-> 1]
  /\ pre_hooks = [m \in Models |-> 1]
  /\ hooks_at_call = << >>
  /\ frames_read = 0
  /\ error = "none"
  /\ plan = NoPlan

Fail(e) == pc' = "failed" /\ error' = e

\* lines 211-214, 282-283, 293: which branch the input takes
Classify ==
  /\ pc = "start"
  /\ IF isdir
       THEN kind' = "directory" /\ pc' = "list"
       ELSE IF is_video(data_dir)
         THEN kind' = "video" /\ pc' = "check"
         ELSE kind' = "image" /\ pc' = "read_image"
  /\ UNCHANGED << inputs, cap, image_files, img_path, processed, image, fps,
                  merged, outputs, hooks, hooks_at_call, frames_read, error,
                  plan >>

\* lines 284-291: the assertions and the frame cap
CheckConfig ==
  /\ pc = "check"
  /\ IF assert_even(cfg) /\ assert_overlap(cfg)
       THEN cap' = max_frames(cfg) /\ pc' = "read_video" /\ error' = error
       ELSE cap' = cap /\ Fail("AssertionError")
  /\ UNCHANGED << inputs, kind, image_files, img_path, processed, image, fps,
                  merged, outputs, hooks, hooks_at_call, frames_read, plan >>

\* read_video called without the cap
ReadVideoNoCap ==
  /\ pc = "read_video"
  /\ \/ /\ image' = FirstFrames(video_len)
        /\ frames_read' = frames_read + video_len
        /\ fps' = src_fps
        /\ pc' = "preprocess"
        /\ error' = error
     \/ /\ Fail("IOError")
        /\ UNCHANGED << image, frames_read, fps >>
  /\ UNCHANGED << inputs, kind, cap, image_files, img_path, processed,
                  merged, outputs, hooks, hooks_at_call, plan >>

\* line 292: read_video(cfg.data_dir, max_frames=max_frames)
ReadVideo ==
  /\ pc = "read_video"
  /\ \/ \E k \in read_video_counts(video_len, cap) :
          /\ image' = FirstFrames(k)
          /\ frames_read' = frames_read + k
          /\ fps' = src_fps
          /\ pc' = "preprocess"
          /\ error' = error
     \/ /\ Fail("IOError")
        /\ UNCHANGED << image, frames_read, fps >>
  /\ UNCHANGED << inputs, kind, cap, image_files, img_path, processed,
                  merged, outputs, hooks, hooks_at_call, plan >>

\* line 294: read_image(cfg.data_dir)
ReadImage ==
  /\ pc = "read_image"
  /\ \/ /\ image' = read_image_frames
        /\ frames_read' = frames_read + Len(read_image_frames)
        /\ pc' = "preprocess"
        /\ error' = error
     \/ /\ Fail("IOError")
        /\ UNCHANGED << image, frames_read >>
  /\ UNCHANGED << inputs, kind, cap, image_files, img_path, processed, fps,
                  merged, outputs, hooks, hooks_at_call, plan >>

\* lines 296-300: resize, crop, torch.stack (which rejects an empty list)
Preprocess ==
  /\ pc = "preprocess"
  /\ \/ /\ Len(image) >= 1
        /\ pc' = "pipe"
        /\ error' = error
     \/ Fail(IF Len(image) = 0 THEN "RuntimeError" ELSE "InvalidInputError")
  /\ UNCHANGED << inputs, kind, cap, image_files, img_path, processed, image,
                  fps, merged, outputs, hooks, hooks_at_call, frames_read,
                  plan >>

\* The pipeline as spec.md 6 describes it: it rejects a configuration that
\* violates the window-planning precondition, may fail otherwise, and
\* returns outputs aligned one to one with the frames it was given.  Its
\* sequence of windows is finite (4.3), which needs windows that hold a
\* frame and a positive advance: num_frames is at least 1.
pipe_accepts(c) == assert_even(c) /\ assert_overlap(c) /\ c.num_frames >= 1

pipe_out_image(frames) == frames

\* lines 303-337: the single pipeline invocation and the concatenation
InvokePipe ==
  /\ pc = "pipe"
  /\ hooks_at_call' = Append(hooks_at_call, fwd_hooks)
  /\ \/ /\ pipe_accepts(cfg)
        /\ merged' = pipe_out_image(image)
        /\ pc' = "write"
        /\ error' = error
     \/ /\ Fail(IF pipe_accepts(cfg) THEN "PipelineError" ELSE "ConfigurationError")
        /\ merged' = merged
  /\ UNCHANGED << inputs, kind, cap, image_files, img_path, processed, image,
                  fps, outputs, hooks, frames_read, plan >>

\* the writer choosing the container from the number of frames
WriteOutputByCount ==
  /\ pc = "write"
  /\ \/ /\ outputs' =
             IF Len(merged) # 1
               THEN WriteFile(outputs, << file_name(data_dir), "mp4" >>,
                      [format |-> "video", frames |-> merged, fps |-> fps,
                       from |-> data_dir])
               ELSE WriteFile(outputs, << file_name(data_dir), "png" >>,
                      [format |-> "image", frames |-> << merged[1] >>,
                       fps |-> 0, from |-> data_dir])
        /\ pc' = "done"
        /\ error' = error
     \/ /\ Fail("IOError")
        /\ outputs' = outputs
  /\ UNCHANGED << inputs, kind, cap, image_files, img_path, processed, image,
                  fps, merged, hooks, hooks_at_call, frames_read, plan >>

\* lines 339-349: write_video if is_video else write_image(merged[0])
WriteOutput ==
  /\ pc = "write"
  /\ \/ /\ outputs' =
             IF is_video(data_dir)
               THEN WriteFile(outputs, << file_name(data_dir), "mp4" >>,
                      [format |-> "video", frames |-> merged, fps |-> fps,
                       from |-> data_dir])
               ELSE WriteFile(outputs, << file_name(data_dir), "png" >>,
                      [format |-> "image", frames |-> << merged[1] >>,
                       fps |-> 0, from |-> data_dir])
        /\ pc' = "done"
        /\ error' = error
     \/ /\ Fail("IOError")
        /\ outputs' = outputs
  /\ UNCHANGED << inputs, kind, cap, image_files, img_path, processed, image,
                  fps, merged, hooks, hooks_at_call, frames_read, plan >>

\* lines 216-220: the images of the directory
ListImages ==
  /\ pc = "list"
  /\ image_files' = { f \in listing : is_image_name(f) }
  /\ pc' = "loop"
  /\ UNCHANGED << inputs, kind, cap, img_path, processed, image, fps, merged,
                  outputs, hooks, hooks_at_call, frames_read, error, plan >>

\* lines 221-223: the loop takes the next image, in the order of os.listdir,
\* and reads it
NextImage ==
  /\ pc = "loop"
  /\ \E f \in image_files :
       /\ img_path' = f
       /\ image_files' = image_files \ { f }
       /\ processed' = Append(processed, f)
  /\ \/ /\ image' = read_image_frames
        /\ frames_read' = frames_read + Len(read_image_frames)
        /\ pc' = "dir_preprocess"
        /\ error' = error
     \/ /\ Fail("IOError")
        /\ UNCHANGED << image, frames_read >>
  /\ UNCHANGED << inputs, kind, cap, fps, merged, outputs, hooks,
                  hooks_at_call, plan >>

\* lines 224-228: resize, crop, torch.stack
DirPreprocess ==
  /\ pc = "dir_preprocess"
  /\ \/ /\ Len(image) >= 1
        /\ pc' = "dir_hook"
        /\ error' = error
     \/ Fail(IF Len(image) = 0 THEN "RuntimeError" ELSE "InvalidInputError")
  /\ UNCHANGED << inputs, kind, cap, image_files, img_path, processed, image,
                  fps, merged, outputs, hooks, hooks_at_call, frames_read,
                  plan >>

\* lines 230-238: check_dtype_hook is registered on both time_embedding
\* modules in every iteration
RegisterCheckHook ==
  /\ pc = "dir_hook"
  /\ fwd_hooks' = [m \in Models |-> fwd_hooks[m] + 1]
  /\ pc' = "dir_pipe"
  /\ UNCHANGED << inputs, kind, cap, image_files, img_path, processed, image,
                  fps, merged, outputs, pre_hooks, hooks_at_call, frames_read,
                  error, plan >>

\* lines 241-275: the pipeline invocation of one image and the concatenation
DirInvokePipe ==
  /\ pc = "dir_pipe"
  /\ hooks_at_call' = Append(hooks_at_call, fwd_hooks)
  /\ \/ /\ pipe_accepts(cfg)
        /\ merged' = pipe_out_image(image)
        /\ pc' = "dir_write"
        /\ error' = error
     \/ /\ Fail(IF pipe_accepts(cfg) THEN "PipelineError" ELSE "ConfigurationError")
        /\ merged' = merged
  /\ UNCHANGED << inputs, kind, cap, image_files, img_path, processed, image,
                  fps, outputs, hooks, frames_read, plan >>

\* lines 277-281: write_image(<output_dir>/<root of the image name>.png)
DirWriteImage ==
  /\ pc = "dir_write"
  /\ \/ /\ outputs' = WriteFile(outputs, splitext_root(img_path) \o << "png" >>,
                        [format |-> "image", frames |-> << merged[1] >>,
                         fps |-> 0, from |-> img_path])
        /\ pc' = "loop"
        /\ error' = error
     \/ /\ Fail("IOError")
        /\ outputs' = outputs
  /\ UNCHANGED << inputs, kind, cap, image_files, img_path, processed, image,
                  fps, merged, hooks, hooks_at_call, frames_read, plan >>

\* line 221: the loop is exhausted
LoopEnd ==
  /\ pc = "loop"
  /\ image_files = {}
  /\ pc' = "done"
  /\ UNCHANGED << inputs, kind, cap, image_files, img_path, processed, image,
                  fps, merged, outputs, hooks, hooks_at_call, frames_read,
                  error, plan >>

Next ==
  \/ Classify
  \/ CheckConfig
  \/ ReadVideo
  \/ ReadImage
  \/ Preprocess
  \/ InvokePipe
  \/ WriteOutput
  \/ ListImages
  \/ NextImage
  \/ DirPreprocess
  \/ RegisterCheckHook
  \/ DirInvokePipe
  \/ DirWriteImage
  \/ LoopEnd

Spec == Init /\ [][Next]_vars

\* ------------------------------------------ Window Planner and Blender
\* spec.md 4.3 and 4.4.  The planner is given the frame count n and the
\* configuration c; the advance between window starts is the quantity the
\* driver computes as max_frames.  plan.stitched[i] is the set of windows
\* (by number) whose output was blended into global position i: the
\* position holds a final value exactly when the set is not empty.
PlanFramesVals == 1 .. MaxPlanFrames

PlanConfigs == [num_frames : PlanFramesVals,
                num_interp_frames : InterpVals,
                num_overlap_frames : OverlapVals]

PlanInit ==
  /\ data_dir = << "clip", "mp4" >>
  /\ isdir = FALSE
  /\ cfg \in PlanConfigs
  /\ listing = {}
  /\ video_len \in 1 .. MaxPlanLen
  /\ src_fps = 0
  /\ pc = "pipe"
  /\ kind = "video"
  /\ cap = 0
  /\ image_files = {}
  /\ img_path = NoFile
  /\ processed = << >>
  /\ image = << >>
  /\ fps = 0
  /\ merged = << >>
  /\ outputs = {}
  /\ fwd_hooks = [m \in Models |-> 1]
  /\ pre_hooks = [m \in Models |-> 1]
  /\ hooks_at_call = << >>
  /\ frames_read = 0
  /\ error = "none"
  /\ plan = [ppc |-> "check", n |-> video_len, c |-> cfg, next_start |-> 0,
             windows |-> << >>, result |-> << >>,
             stitched |-> [i \in 0 .. (video_len - 1) |-> {}]]

driver == << data_dir, isdir, cfg, listing, video_len, src_fps, pc, kind, cap,
             image_files, img_path, processed, image, fps, merged, outputs,
             fwd_hooks, pre_hooks, hooks_at_call, frames_read, error >>

\* 4.3: the precondition, checked before any window is planned
PlanCheck ==
  /\ plan.ppc = "check"
  /\ plan' = [plan EXCEPT !.ppc = IF assert_even(plan.c) /\ assert_overlap(plan.c)
                                    THEN "plan" ELSE "failed"]
  /\ UNCHANGED driver

\* 4.3: the next window has num_frames frames; it is clipped to n and the
\* missing frames are counted as padding; the start advances by
\* step * (num_frames // 2)
PlanWindow ==
  /\ plan.ppc = "plan"
  /\ plan.next_start < plan.n
  /\ LET start == plan.next_start
         end == Min(start + plan.c.num_frames, plan.n)
         w == [start |-> start, end |-> end,
               pad |-> start + plan.c.num_frames - end]
     IN plan' = [plan EXCEPT !.ppc = "invoke",
                             !.windows = Append(@, w),
                             !.next_start = start + max_frames(plan.c)]
  /\ UNCHANGED driver

\* 4.3, 6: the window's frames, the last one repeated over the padding, go
\* through the pipeline, which returns one output per frame
InvokeWindow ==
  /\ plan.ppc = "invoke"
  /\ LET w == Last(plan.windows)
     IN plan' = [plan EXCEPT
                   !.ppc = "blend",
                   !.result = [k \in 1 .. (w.end - w.start + w.pad) |->
                                 Min(w.start + k - 1, w.end - 1)]]
  /\ UNCHANGED driver

\* 4.4: local outputs are mapped to global positions, the outputs of padded
\* positions are discarded, positions already set are blended
Blend ==
  /\ plan.ppc = "blend"
  /\ LET w == Last(plan.windows)
         kept == 1 .. (Len(plan.result) - w.pad)
         hit == { w.start + k - 1 : k \in kept }
     IN plan' = [plan EXCEPT
                   !.ppc = "plan",
                   !.result = << >>,
                   !.stitched = [i \in DOMAIN @ |->
                                   IF i \in hit THEN @[i] \cup { Len(plan.windows) }
                                                ELSE @[i]]]
  /\ UNCHANGED driver

\* 4.3: the sequence of windows is finite
PlanDone ==
  /\ plan.ppc = "plan"
  /\ plan.next_start >= plan.n
  /\ plan' = [plan EXCEPT !.ppc = "done"]
  /\ UNCHANGED driver

PlanNext ==
  \/ PlanCheck
  \/ PlanWindow
  \/ InvokeWindow
  \/ Blend
  \/ PlanDone

PlanSpec == PlanInit /\ [][PlanNext]_vars

\* ------------------------------------------------------------ properties
\* the precondition of spec.md 4.3
ValidConfiguration(c) ==
  /\ c.num_frames % 2 = 0
  /\ 2 <= c.num_overlap_frames
  /\ c.num_overlap_frames <= (c.num_interp_frames + 3) \div 2

\* step * (num_frames // 2) of spec.md 4.3
Advance(c) ==
  (c.num_interp_frames + 2 - c.num_overlap_frames) * (c.num_frames \div 2)

PlanIndices == 0 .. (plan.n - 1)

\* the first num_overlap_frames positions of every window but the first
DeclaredOverlap(i) ==
  \E k \in 2 .. Len(plan.windows) :
    /\ plan.windows[k].start <= i
    /\ i < plan.windows[k].start + plan.c.num_overlap_frames

Shared(k) ==
  LET a == plan.windows[k]
      b == plan.windows[k + 1]
  IN Cardinality((a.start .. (a.end + a.pad - 1))
                   \cap (b.start .. (b.end + b.pad - 1)))

C3_RejectedBeforeWork ==
  ~ValidConfiguration(cfg) =>
    /\ frames_read = 0
    /\ pipe_calls = 0
    /\ pc # "done"

\* C4 as stated: a run that failed has written no output file.
C4_NoOutputOnFailure ==
  pc = "failed" => outputs = {}

\* C5 as stated: the frames handed to the writer for a video are the frames
\* 0 .. N-1 of the video.
C5_FullLength ==
  (kind = "video" /\ pc \in {"write", "done"}) =>
    merged = FirstFrames(video_len)

\* C5 amended: the frames handed to the writer for a video are a prefix of
\* the video, frames 0 .. k-1 with k <= N, and k is min(N, max_frames)
\* whenever max_frames is at least 1.
C5_CappedLength ==
  (kind = "video" /\ pc \in {"write", "done"}) =>
    /\ Len(merged) <= video_len
    /\ merged = FirstFrames(Len(merged))
    /\ Advance(cfg) >= 1 => Len(merged) = Min(video_len, Advance(cfg))

\* a video longer than the cap reached the writer
C5_Witness ==
  /\ kind = "video"
  /\ pc = "write"
  /\ Len(merged) >= 1
  /\ Len(merged) < video_len

\* C6 as stated: the run of a file input ends with a still image when the
\* output has one frame and with a video at the source frame rate otherwise,
\* holding every frame of the output.
C6_KindByFrameCount ==
  (pc = "done" /\ kind \in {"video", "image"}) =>
    outputs = { IF Len(merged) = 1
                  THEN [path |-> << data_dir[1], "png" >>, format |-> "image",
                        frames |-> merged, fps |-> 0, from |-> data_dir]
                  ELSE [path |-> << data_dir[1], "mp4" >>, format |-> "video",
                        frames |-> merged, fps |-> src_fps, from |-> data_dir] }

\* C6 amended: the run of a file input ends with a video at the source frame
\* rate when the input was classified as a video, whatever the frame count,
\* and with a still image otherwise, holding every frame of the output.
C6_KindByInput ==
  (pc = "done" /\ kind \in {"video", "image"}) =>
    outputs = { IF kind = "image"
                  THEN [path |-> << data_dir[1], "png" >>, format |-> "image",
                        frames |-> merged, fps |-> 0, from |-> data_dir]
                  ELSE [path |-> << data_dir[1], "mp4" >>, format |-> "video",
                        frames |-> merged, fps |-> src_fps, from |-> data_dir] }

\* a video of one frame was written as a video file
C6_Witness ==
  /\ pc = "done"
  /\ kind = "video"
  /\ Len(merged) = 1
  /\ \E o \in outputs : o.format = "video" /\ Len(o.frames) = 1

\* the extensions the driver names: .mp4, and .png .jpg .jpeg in any case
RecognizedExtension(p) ==
  Len(p) >= 2 /\ (Last(p) = "mp4" \/ Lower(Last(p)) \in {"png", "jpg", "jpeg"})

\* C7 as stated: a path that is no directory and has no recognized extension
\* is never taken for an image or a video, no frame of it is read and the
\* pipeline is not invoked.
C7_UnsupportedRejected ==
  (~isdir /\ ~RecognizedExtension(data_dir)) =>
    /\ kind \notin {"image", "video"}
    /\ frames_read = 0
    /\ pipe_calls = 0

\* C8 as stated: once both assertions have passed, the cap handed to
\* read_video is at least 1.
C8_CapAtLeastOne ==
  pc = "read_video" => cap >= 1

\* C9 as stated: after a successful run over a directory every image of the
\* listing was taken once, and the outputs are as many as the images taken,
\* each image having an output of its own.
C9_OneOutputPerImage ==
  (kind = "directory" /\ pc = "done") =>
    /\ Range(processed) = { f \in listing : is_image_name(f) }
    /\ Cardinality(Range(processed)) = Len(processed)
    /\ Cardinality(outputs) = Len(processed)
    /\ \A f \in Range(processed) : \E o \in outputs : o.from = f

\* C10 as stated: every pipeline invocation of a run sees the same number
\* of forward hooks on the two time_embedding modules.
C10_HooksFixed ==
  \A i, j \in DOMAIN hooks_at_call : hooks_at_call[i] = hooks_at_call[j]

====
